---- MODULE Spec2Model ----
(***************************************************************************)
(* Secret lifecycle engine of the credential management system             *)
(* (services/secrets-service/main.py): the secrets and secret_versions     *)
(* tables, the request handlers working on them, the crypto envelope and   *)
(* the audit notifications sent to the audit service.                      *)
(***************************************************************************)
EXTENDS Naturals, Integers, Sequences, FiniteSets, TLC

VARIABLES
    secrets,          \* table secrets: row id = index (SERIAL primary key)
    secret_versions,  \* table secret_versions, in insertion order
    audit,            \* the log_audit calls made so far, in order
    clock,            \* the store's NOW(); advanced by every writing transaction
    latest,           \* history: secret id -> plaintext of its last value change
    last,             \* the handler that ran last and the status it answered
    txn,              \* per worker: an update_secret call between SELECT and COMMIT
    audit_up,         \* what a post to the audit service meets at present
    audit_logs,       \* table audit_logs of the audit service: the events it received
    held              \* history: secret id -> what it held at each of its versions

vars == <<secrets, secret_versions, audit, clock, latest, last, txn,
          audit_up, audit_logs, held>>

----------------------------------------------------------------------------
(* Bounds of the model *)

MaxSecrets == 2
MaxAudit == 3

(* Inputs *)

(* The verified token payloads requests arrive with: user 1 is an admin;   *)
(* user 2 holds a developer token and, issued at another time, a user one. *)
Email(uid) == IF uid = 1 THEN "admin@cms.local" ELSE "dev@cms.local"
Identity(uid, role) == [user_id |-> uid, email |-> Email(uid), role |-> role]
Identities == {Identity(1, "admin"), Identity(2, "developer"), Identity(2, "user")}

(* one id more than the table can hold: an id that never exists *)
SecretIds == 1..(MaxSecrets + 1)
Workers == {"w1", "w2"}

(* Optional[T]: None is <<>>, a present x is <<x>> *)
None == <<>>
Some(x) == <<x>>
Optional(S) == {None} \cup {Some(x) : x \in S}

(* Python truthiness of an Optional[str]: None and "" are both falsy *)
Truthy(opt) == opt # None /\ opt[1] # ""

----------------------------------------------------------------------------
(* Crypto envelope: Fernet under the process-wide key.  A token carries    *)
(* a random IV, the payload and an HMAC over both under the key.           *)

(* The token also carries the time of encryption; the model uses it as the *)
(* nonce, so that two encryptions of one plaintext differ as they do with  *)
(* a random IV.                                                            *)

MasterKey == "k0"

Mac(key, ts, pt) == <<key, ts, pt>>

Token(key, ts, pt) == [ts |-> ts, pt |-> pt, mac |-> Mac(key, ts, pt)]

(* a string str.encode() refuses: one holding a lone surrogate *)
Unencodable == "<U+D800>"

(* encrypt_value raises UnicodeEncodeError where value.encode() does *)
encrypt_raises(value) == value = Unencodable

encrypt_value(value, now) == Token(MasterKey, now, value)

(* mutant: the payload is taken without verifying the HMAC *)
decrypt_ok_Unverified(tok) == tok.ts >= 0

(* cipher.decrypt verifies the HMAC under the key and raises InvalidToken  *)
(* when it does not match                                                  *)
decrypt_ok(tok) == tok.mac = Mac(MasterKey, tok.ts, tok.pt)

decrypt_value(tok) == tok.pt

----------------------------------------------------------------------------
(* Tags: stored as json.dumps(list), read back through parse_tags.  A value *)
(* of the tags column is [t, json, v]: t is its Python type as the driver  *)
(* returns it; for a str, json tells what json.loads makes of the text     *)
(* ("invalid": it raises); v holds the elements of a list, or the one text *)
(* of any other value.                                                     *)

PyList(elements) == [t |-> "list", json |-> "", v |-> elements]
PyStr(json, text) == [t |-> "str", json |-> json, v |-> <<text>>]

json_dumps(tags) == [t |-> "str", json |-> "list", v |-> tags]

json_loads_raises(text) == text.json = "invalid"

(* json.loads: the value the text serializes, of whatever type *)
json_loads(text) == [t |-> text.json, json |-> "", v |-> text.v]

parse_tags(tags) ==
    CASE tags.t = "null" -> PyList(<<>>)
      [] tags.t \in {"list", "tuple"} -> PyList(tags.v)
      [] tags.t = "str" -> IF json_loads_raises(tags) THEN PyList(tags.v)
                           ELSE json_loads(tags)
      [] OTHER -> PyList(<<>>)

(* what the tags column of a row may hold *)
BareTexts == {"db"}
MalformedTexts == {"[db,"}
StoredTags ==
    { [t |-> "null", json |-> "", v |-> <<>>],
      PyList(<<>>), PyList(<<"db">>), PyList(<<"db", "prod">>),
      json_dumps(<<>>), json_dumps(<<"db">>),
      PyStr("int", "5"), PyStr("null", "null"), PyStr("str", "db"),
      PyStr("dict", "{}") }
    \cup {PyStr("invalid", text) : text \in BareTexts \cup MalformedTexts}

----------------------------------------------------------------------------
(* Request bodies *)

SecretCreate(name, type, value, description, tags) ==
    [name |-> name, type |-> type, value |-> value,
     description |-> description, tags |-> tags]

SecretUpdate(value, description, tags) ==
    [value |-> value, description |-> description, tags |-> tags]

CreateRequests ==
    { SecretCreate("db-pass", "password", "p@ss1", None, <<>>),
      SecretCreate("db-pass", "password", Unencodable, None, <<>>) }

UpdateRequests ==
    { SecretUpdate(Some("p@ss2"), None, None),
      SecretUpdate(Some(""), None, None),
      SecretUpdate(Some(Unencodable), None, None),
      SecretUpdate(None, Some("prod db"), Some(<<"db">>)),
      SecretUpdate(Some("pw"), Some("prod db"), None) }

(* the updates that carry a value the handler takes up *)
ValueUpdateRequests ==
    {upd \in UpdateRequests : Truthy(upd.value) /\ ~encrypt_raises(upd.value[1])}

(* values rotate_secret may draw: 20 characters of its alphabet *)
RotateValues == {"Zk3#aaaaaaaaaaaaaaaa", "Qm8!bbbbbbbbbbbbbbbb"}

----------------------------------------------------------------------------
(* Responses *)

MASKED == "************"
NoValue == "<no value>"
OK == "ok"
NOT_FOUND == "Secret not found"
FORBIDDEN == "Users cannot create secrets. Contact your administrator."
INVALID_TOKEN == "cryptography.fernet.InvalidToken"
ENCODE_ERROR == "UnicodeEncodeError"

Response(status, detail) ==
    [status |-> status, detail |-> detail,
     value |-> NoValue, version |-> 0, ids |-> <<>>, rows |-> <<>>,
     tags |-> PyList(<<>>)]

HTTP404 == Response(404, NOT_FOUND)
HTTP403 == Response(403, FORBIDDEN)

AuditEvent(user, action, sid) ==
    [user_id |-> user.user_id, user_email |-> user.email,
     action |-> action, secret_id |-> sid]

(* log_audit: posts the event to the audit service *)
log_audit(trail, user, action, sid) == Append(trail, AuditEvent(user, action, sid))

(* what requests.post(AUDIT_SERVICE_URL, timeout=2) may meet *)
AuditOutcomes == {"ok", "refused", "timeout"}

(* requests.post raises ConnectionError or Timeout unless the service answers *)
post_raises(outcome) == outcome # "ok"

(* mutant: log_audit without its try/except *)
log_audit_raises_Propagates(outcome) == post_raises(outcome)

(* whether an exception leaves log_audit: "except: pass" swallows every one *)
log_audit_raises(outcome) == FALSE

(* the answers a handler gives after its call of log_audit *)
AfterAudit(op, response) ==
    /\ op \in {"create", "get", "update", "rotate", "delete"}
    /\ response.status = 200

(* what the client is answered: the handler's response, or 500 when an     *)
(* exception left the handler after the response was computed              *)
Served(op, response) ==
    [op |-> op,
     status |-> IF AfterAudit(op, response) /\ log_audit_raises(audit_up)
                THEN 500 ELSE response.status]

(* the posts of one call: the audit service inserts the events that reach *)
(* it (POST /api/audit); the call does not change what a post meets        *)
Delivery ==
    /\ audit_logs' = IF audit_up = "ok"
                     THEN audit_logs \o SubSeq(audit', Len(audit) + 1, Len(audit'))
                     ELSE audit_logs
    /\ audit_up' = audit_up

(* history: a call that stores a new ciphertext or version for a secret    *)
(* opens an entry for what the secret holds from then on, and notes on the *)
(* entry before it the caller whose update replaced it                     *)
Holding(row, value) ==
    [version |-> row.version, encrypted_value |-> row.encrypted_value,
     value |-> value, replaced_by |-> 0]

History ==
    held' =
       IF Len(secrets') > Len(secrets)
       THEN Append(held, <<Holding(secrets'[Len(secrets')], latest'[Len(secrets')])>>)
       ELSE [sid \in DOMAIN held |->
               IF /\ secrets'[sid].version = secrets[sid].version
                  /\ secrets'[sid].encrypted_value = secrets[sid].encrypted_value
               THEN held[sid]
               ELSE Append([held[sid] EXCEPT ![Len(held[sid])].replaced_by =
                                                audit'[Len(audit')].user_id],
                           Holding(secrets'[sid], latest'[sid]))]

----------------------------------------------------------------------------
(* The queries the handlers run *)

Exists(sid) == sid \in DOMAIN secrets

(* mutant: the SELECT without "deleted_at IS NULL" *)
SelectOwned_IgnoresTombstone(sid, uid) ==
    IF Exists(sid) /\ secrets[sid].owner_id = uid THEN Some(secrets[sid]) ELSE None

(* mutant: the SELECT without "owner_id = %s" *)
SelectOwned_AnyOwner(sid, uid) ==
    IF Exists(sid) /\ secrets[sid].deleted_at = None THEN Some(secrets[sid]) ELSE None

(* SELECT ... WHERE id = sid AND owner_id = uid AND deleted_at IS NULL *)
SelectOwned(sid, uid) ==
    IF Exists(sid) /\ secrets[sid].owner_id = uid /\ secrets[sid].deleted_at = None
    THEN Some(secrets[sid]) ELSE None

(* mutant: the admin branch of the SELECT without "deleted_at IS NULL" *)
SelectVisible_AdminSeesDeleted(sid, user) ==
    IF user.role = "admin"
    THEN IF Exists(sid) THEN Some(secrets[sid]) ELSE None
    ELSE SelectOwned(sid, user.user_id)

(* get_secret's SELECT: admin reads any live row, the others their own *)
SelectVisible(sid, user) ==
    IF user.role = "admin"
    THEN IF Exists(sid) /\ secrets[sid].deleted_at = None
         THEN Some(secrets[sid]) ELSE None
    ELSE SelectOwned(sid, user.user_id)

(* mutant: the non-admin query without "s.owner_id = %s" *)
Listed_NoOwnerFilter(tbl, sid, user) == tbl[sid].deleted_at = None

(* list_secrets' WHERE clause, over the table tbl *)
Listed(tbl, sid, user) ==
    /\ tbl[sid].deleted_at = None
    /\ (user.role = "admin" \/ tbl[sid].owner_id = user.user_id)

(* ORDER BY s.updated_at DESC over the selected ids of tbl *)
RECURSIVE OrderByUpdatedAtDesc(_, _)
OrderByUpdatedAtDesc(tbl, ids) ==
    IF ids = {} THEN <<>>
    ELSE LET top == CHOOSE i \in ids :
                       \A j \in ids : tbl[j].updated_at <= tbl[i].updated_at
         IN <<top>> \o OrderByUpdatedAtDesc(tbl, ids \ {top})

(* ORDER BY sv.version DESC over the selected secret_versions row indexes *)
RECURSIVE OrderByVersionDesc(_)
OrderByVersionDesc(idx) ==
    IF idx = {} THEN <<>>
    ELSE LET top == CHOOSE i \in idx :
                       \A j \in idx : secret_versions[j].version <= secret_versions[i].version
         IN <<top>> \o OrderByVersionDesc(idx \ {top})

(* the ids list_secrets returns to user when the table holds tbl *)
list_rows(tbl, user) ==
    OrderByUpdatedAtDesc(tbl, {sid \in DOMAIN tbl : Listed(tbl, sid, user)})

version_rows(sid) ==
    LET idx == OrderByVersionDesc(
                   {i \in DOMAIN secret_versions : secret_versions[i].secret_id = sid})
    IN [k \in DOMAIN idx |-> secret_versions[idx[k]]]

----------------------------------------------------------------------------
(* Initial state: empty tables, nothing notified, no request served *)

NoTxn == [pc |-> "idle", op |-> "update", sid |-> 0, user |-> Identity(1, "admin"),
          req |-> SecretUpdate(None, None, None), now |-> 0,
          version |-> 0, encrypted_value |-> encrypt_value("", 0)]

Init ==
    /\ secrets = <<>>
    /\ secret_versions = <<>>
    /\ audit = <<>>
    /\ clock = 0
    /\ latest = <<>>
    /\ last = [op |-> "boot", status |-> 200]
    /\ txn = [w \in Workers |-> NoTxn]
    /\ audit_up = "ok"
    /\ audit_logs = <<>>
    /\ held = <<>>

----------------------------------------------------------------------------
(* create_secret *)

(* mutant: the row is stored under a fixed owner, not under the caller *)
NewSecret_FixedOwner(secret, owner, now) ==
    [name |-> secret.name, type |-> secret.type,
     encrypted_value |-> encrypt_value(secret.value, now),
     description |-> secret.description, tags |-> json_dumps(secret.tags),
     owner_id |-> 1, version |-> 1,
     created_at |-> now, updated_at |-> now, deleted_at |-> None]

NewSecret(secret, owner, now) ==
    [name |-> secret.name, type |-> secret.type,
     encrypted_value |-> encrypt_value(secret.value, now),
     description |-> secret.description, tags |-> json_dumps(secret.tags),
     owner_id |-> owner, version |-> 1,
     created_at |-> now, updated_at |-> now, deleted_at |-> None]

(* mutant: the role check left out *)
CreateAllowed_Everyone(user) == user.role \in {"admin", "developer", "user"}

CreateAllowed(user) == user.role # "user"

create_secret_response(secret, user) ==
    IF ~CreateAllowed(user) THEN HTTP403
    ELSE IF encrypt_raises(secret.value) THEN Response(500, ENCODE_ERROR)
    ELSE [Response(200, OK) EXCEPT !.version = 1, !.ids = <<Len(secrets) + 1>>]

create_secret(secret, user) ==
    LET response == create_secret_response(secret, user)
        id == Len(secrets) + 1
        now == clock + 1
    IN /\ last' = Served("create", response)
       /\ IF response.status # 200
          THEN UNCHANGED <<secrets, secret_versions, audit, clock, latest, txn>>
          ELSE /\ Len(secrets) < MaxSecrets
               /\ Len(audit) < MaxAudit
               /\ secrets' = Append(secrets, NewSecret(secret, user.user_id, now))
               /\ clock' = now
               /\ audit' = log_audit(audit, user, "CREATE", id)
               /\ latest' = Append(latest, secret.value)
               /\ UNCHANGED <<secret_versions, txn>>
       /\ Delivery
       /\ History

----------------------------------------------------------------------------
(* list_secrets and get_secret *)

list_secrets_response(user) ==
    [Response(200, OK) EXCEPT !.ids = list_rows(secrets, user)]

list_secrets(user) ==
    /\ last' = Served("list", list_secrets_response(user))
    /\ UNCHANGED <<secrets, secret_versions, audit, clock, latest, txn>>
    /\ Delivery
    /\ History

get_secret_response(sid, show_value, user) ==
    LET result == SelectVisible(sid, user)
    IN IF result = None THEN HTTP404
       ELSE IF show_value /\ ~decrypt_ok(result[1].encrypted_value)
       THEN Response(500, INVALID_TOKEN)
       ELSE [Response(200, OK) EXCEPT
               !.ids = <<sid>>,
               !.version = result[1].version,
               !.tags = parse_tags(result[1].tags),
               !.value = IF show_value THEN decrypt_value(result[1].encrypted_value)
                         ELSE MASKED]

(* mutant: VIEW is notified only when the value is revealed *)
get_secret_ViewWhenRevealed(sid, show_value, user) ==
    LET response == get_secret_response(sid, show_value, user)
    IN /\ last' = Served("get", response)
       /\ IF response.status = 404 \/ ~show_value
          THEN UNCHANGED <<secrets, secret_versions, audit, clock, latest, txn>>
          ELSE /\ Len(audit) < MaxAudit
               /\ audit' = log_audit(audit, user, "VIEW", sid)
               /\ UNCHANGED <<secrets, secret_versions, clock, latest, txn>>
       /\ Delivery
       /\ History

get_secret(sid, show_value, user) ==
    LET response == get_secret_response(sid, show_value, user)
    IN /\ last' = Served("get", response)
       /\ IF response.status = 404
          THEN UNCHANGED <<secrets, secret_versions, audit, clock, latest, txn>>
          ELSE /\ Len(audit) < MaxAudit
               /\ audit' = log_audit(audit, user, "VIEW", sid)
               /\ UNCHANGED <<secrets, secret_versions, clock, latest, txn>>
       /\ Delivery
       /\ History

----------------------------------------------------------------------------
(* update_secret and rotate_secret *)

(* mutant: the row is numbered with the version the update moves to *)
ArchiveRow_NextVersion(sid, version, encrypted_value, uid) ==
    [secret_id |-> sid, version |-> version + 1,
     encrypted_value |-> encrypted_value, updated_by |-> uid]

(* INSERT INTO secret_versions: the row the SELECT read, as it was read *)
ArchiveRow(sid, version, encrypted_value, uid) ==
    [secret_id |-> sid, version |-> version,
     encrypted_value |-> encrypted_value, updated_by |-> uid]

(* whether the value clauses are added to the UPDATE *)
ValueSupplied(upd) == Truthy(upd.value)

(* mutant: the version is raised but "encrypted_value = %s" is left out *)
ApplyUpdate_KeepsCiphertext(row, upd, now) ==
    [row EXCEPT
       !.version = IF ValueSupplied(upd) THEN @ + 1 ELSE @,
       !.description = IF upd.description # None THEN upd.description ELSE @,
       !.tags = IF upd.tags # None THEN json_dumps(upd.tags[1]) ELSE @,
       !.updated_at = now]

(* mutant: "updated_at = NOW()" left out of the SET clauses *)
ApplyUpdate_KeepsUpdatedAt(row, upd, now) ==
    [row EXCEPT
       !.encrypted_value = IF ValueSupplied(upd)
                           THEN encrypt_value(upd.value[1], now) ELSE @,
       !.version = IF ValueSupplied(upd) THEN @ + 1 ELSE @,
       !.description = IF upd.description # None THEN upd.description ELSE @,
       !.tags = IF upd.tags # None THEN json_dumps(upd.tags[1]) ELSE @]

(* UPDATE secrets SET ... : the SET clauses applied to the row as it is now *)
ApplyUpdate(row, upd, now) ==
    [row EXCEPT
       !.encrypted_value = IF ValueSupplied(upd)
                           THEN encrypt_value(upd.value[1], now) ELSE @,
       !.version = IF ValueSupplied(upd) THEN @ + 1 ELSE @,
       !.description = IF upd.description # None THEN upd.description ELSE @,
       !.tags = IF upd.tags # None THEN json_dumps(upd.tags[1]) ELSE @,
       !.updated_at = now]

(* history: a value change is an update that carries a non-empty value *)
LatestAfter(sid, upd) ==
    IF upd.value # None /\ upd.value[1] # ""
    THEN [latest EXCEPT ![sid] = upd.value[1]] ELSE latest

(* mutant: rotate_secret notifies ROTATE in place of the UPDATE *)
UpdateEvents_RotateOnly(op, user, sid) ==
    IF op = "rotate"
    THEN log_audit(audit, user, "ROTATE", sid)
    ELSE log_audit(audit, user, "UPDATE", sid)

(* what a successful call notifies: update_secret sends UPDATE, and       *)
(* rotate_secret, which runs update_secret, sends ROTATE after it         *)
UpdateEvents(op, user, sid) ==
    IF op = "rotate"
    THEN log_audit(log_audit(audit, user, "UPDATE", sid), user, "ROTATE", sid)
    ELSE log_audit(audit, user, "UPDATE", sid)

update_secret_response(op, sid, upd, user) ==
    LET existing == SelectOwned(sid, user.user_id)
    IN IF existing = None THEN HTTP404
       ELSE IF ValueSupplied(upd) /\ encrypt_raises(upd.value[1])
       THEN Response(500, ENCODE_ERROR)
       ELSE [Response(200, OK) EXCEPT
               !.ids = <<sid>>,
               !.version = ApplyUpdate(existing[1], upd, clock + 1).version,
               !.value = IF op = "rotate" THEN upd.value[1] ELSE NoValue]

(* mutant: a connection in autocommit mode, every statement final at once *)
close_uncommitted_Autocommit(committed, written) == written

(* get_db's "finally: conn.close()" reached by an exception, db.commit()   *)
(* not run: the store discards what the open transaction wrote             *)
close_uncommitted(committed, written) == committed

(* mutant: log_audit is called before the value is encrypted and the      *)
(* transaction committed                                                   *)
Update_NotifiesFirst(op, sid, upd, user) ==
    LET response == update_secret_response(op, sid, upd, user)
        existing == SelectOwned(sid, user.user_id)
        now == clock + 1
        inserted == Append(secret_versions,
                       ArchiveRow(sid, existing[1].version,
                                  existing[1].encrypted_value, user.user_id))
    IN /\ last' = Served(op, response)
       /\ IF response.status = 404
          THEN UNCHANGED <<secrets, secret_versions, audit, clock, latest, txn>>
          ELSE IF response.status = 500
          THEN /\ Len(UpdateEvents(op, user, sid)) <= MaxAudit
               /\ secret_versions' = close_uncommitted(secret_versions, inserted)
               /\ audit' = UpdateEvents(op, user, sid)
               /\ UNCHANGED <<secrets, clock, latest, txn>>
          ELSE /\ Len(UpdateEvents(op, user, sid)) <= MaxAudit
               /\ secret_versions' = inserted
               /\ secrets' = [secrets EXCEPT ![sid] = ApplyUpdate(@, upd, now)]
               /\ clock' = now
               /\ audit' = UpdateEvents(op, user, sid)
               /\ latest' = LatestAfter(sid, upd)
               /\ UNCHANGED txn
       /\ Delivery
       /\ History

(* the handler run without interruption: SELECT, INSERT, UPDATE, COMMIT *)
Update(op, sid, upd, user) ==
    LET response == update_secret_response(op, sid, upd, user)
        existing == SelectOwned(sid, user.user_id)
        now == clock + 1
        inserted == Append(secret_versions,
                       ArchiveRow(sid, existing[1].version,
                                  existing[1].encrypted_value, user.user_id))
    IN /\ last' = Served(op, response)
       /\ IF response.status = 404
          THEN UNCHANGED <<secrets, secret_versions, audit, clock, latest, txn>>
          ELSE IF response.status = 500
          THEN /\ secret_versions' = close_uncommitted(secret_versions, inserted)
               /\ UNCHANGED <<secrets, audit, clock, latest, txn>>
          ELSE /\ Len(UpdateEvents(op, user, sid)) <= MaxAudit
               /\ secret_versions' = inserted
               /\ secrets' = [secrets EXCEPT ![sid] = ApplyUpdate(@, upd, now)]
               /\ clock' = now
               /\ audit' = UpdateEvents(op, user, sid)
               /\ latest' = LatestAfter(sid, upd)
               /\ UNCHANGED txn
       /\ Delivery
       /\ History

update_secret(sid, upd, user) == Update("update", sid, upd, user)

RotateUpdate(new_password) == SecretUpdate(Some(new_password), None, None)

rotate_secret(sid, new_password, user) ==
    Update("rotate", sid, RotateUpdate(new_password), user)

----------------------------------------------------------------------------
(* delete_secret and get_secret_versions *)

delete_secret_response(sid, user) ==
    IF SelectOwned(sid, user.user_id) = None THEN HTTP404
    ELSE [Response(200, OK) EXCEPT !.ids = <<sid>>]

(* mutant: the tombstone is set and the secret's archived rows are removed *)
delete_secret_Purges(sid, user) ==
    LET response == delete_secret_response(sid, user)
    IN /\ last' = Served("delete", response)
       /\ IF response.status # 200
          THEN UNCHANGED <<secrets, secret_versions, audit, clock, latest, txn>>
          ELSE /\ Len(audit) < MaxAudit
               /\ secrets' = [secrets EXCEPT ![sid].deleted_at = Some(clock + 1)]
               /\ secret_versions' =
                     SelectSeq(secret_versions, LAMBDA row : row.secret_id # sid)
               /\ clock' = clock + 1
               /\ audit' = log_audit(audit, user, "DELETE", sid)
               /\ UNCHANGED <<latest, txn>>
       /\ Delivery
       /\ History

delete_secret(sid, user) ==
    LET response == delete_secret_response(sid, user)
    IN /\ last' = Served("delete", response)
       /\ IF response.status # 200
          THEN UNCHANGED <<secrets, secret_versions, audit, clock, latest, txn>>
          ELSE /\ Len(audit) < MaxAudit
               /\ secrets' = [secrets EXCEPT ![sid].deleted_at = Some(clock + 1)]
               /\ clock' = clock + 1
               /\ audit' = log_audit(audit, user, "DELETE", sid)
               /\ UNCHANGED <<secret_versions, latest, txn>>
       /\ Delivery
       /\ History

get_secret_versions_response(sid, user) ==
    IF SelectOwned(sid, user.user_id) = None THEN HTTP404
    ELSE [Response(200, OK) EXCEPT !.ids = <<sid>>, !.rows = version_rows(sid)]

get_secret_versions(sid, user) ==
    /\ last' = Served("versions", get_secret_versions_response(sid, user))
    /\ UNCHANGED <<secrets, secret_versions, audit, clock, latest, txn>>
    /\ Delivery
    /\ History

----------------------------------------------------------------------------
(* Requests served one at a time *)

Next ==
    \/ \E secret \in CreateRequests, user \in Identities : create_secret(secret, user)
    \/ \E user \in Identities : list_secrets(user)
    \/ \E sid \in SecretIds, show_value \in BOOLEAN, user \in Identities :
          get_secret(sid, show_value, user)
    \/ \E sid \in SecretIds, upd \in UpdateRequests, user \in Identities :
          update_secret(sid, upd, user)
    \/ \E sid \in SecretIds, new_password \in RotateValues, user \in Identities :
          rotate_secret(sid, new_password, user)
    \/ \E sid \in SecretIds, user \in Identities : delete_secret(sid, user)
    \/ \E sid \in SecretIds, user \in Identities : get_secret_versions(sid, user)

(* the audit service stays reachable *)
Spec == Init /\ [][Next]_vars

(* The audit service comes and goes while requests are served *)

AuditServiceTurns(outcome) ==
    /\ audit_up # outcome
    /\ audit_up' = outcome
    /\ UNCHANGED <<secrets, secret_versions, audit, clock, latest, last, txn,
                   audit_logs, held>>

(* the calls that reach log_audit: those of a secret's owner *)
AuditCallers == {Identity(2, "developer")}
AuditUpdates == {SecretUpdate(Some("p@ss2"), None, None)}
AuditRotateValues == {"Zk3#aaaaaaaaaaaaaaaa"}

NextAudit ==
    \/ \E secret \in CreateRequests, user \in AuditCallers :
          create_secret(secret, user)
    \/ \E sid \in SecretIds, show_value \in BOOLEAN, user \in AuditCallers :
          get_secret(sid, show_value, user)
    \/ \E sid \in SecretIds, upd \in AuditUpdates, user \in AuditCallers :
          update_secret(sid, upd, user)
    \/ \E sid \in SecretIds, new_password \in AuditRotateValues,
          user \in AuditCallers :
          rotate_secret(sid, new_password, user)
    \/ \E sid \in SecretIds, user \in AuditCallers : delete_secret(sid, user)
    \/ \E outcome \in AuditOutcomes : AuditServiceTurns(outcome)

SpecAudit == Init /\ [][NextAudit]_vars

(* Stored ciphertexts the process did not produce: a token altered in the  *)
(* store, or one written under another key (SECRET_KEY changed, or        *)
(* generated anew at start when the environment sets none)                 *)

OtherKey == "k1"
Garbled == "<garbled>"
Alterations == {"body", "mac", "key"}

Altered(tok, how) ==
    CASE how = "body" -> [tok EXCEPT !.pt = Garbled]
      [] how = "mac" -> [tok EXCEPT !.mac = Mac(MasterKey, tok.ts, Garbled)]
      [] how = "key" -> Token(OtherKey, tok.ts, tok.pt)

Alter(sid, how) ==
    /\ Exists(sid)
    /\ secrets[sid].encrypted_value = encrypt_value(latest[sid],
                                                    secrets[sid].encrypted_value.ts)
    /\ secrets' = [secrets EXCEPT ![sid].encrypted_value = Altered(@, how)]
    /\ UNCHANGED <<secret_versions, audit, clock, latest, last, txn,
                   audit_up, audit_logs, held>>

CryptoCallers == {Identity(1, "admin"), Identity(2, "developer")}
CryptoCreates == {secret \in CreateRequests : ~encrypt_raises(secret.value)}

NextCrypto ==
    \/ \E secret \in CryptoCreates : create_secret(secret, Identity(2, "developer"))
    \/ \E sid \in SecretIds, show_value \in BOOLEAN, user \in CryptoCallers :
          get_secret(sid, show_value, user)
    \/ \E sid \in SecretIds, upd \in AuditUpdates :
          update_secret(sid, upd, Identity(2, "developer"))
    \/ \E sid \in SecretIds, how \in Alterations : Alter(sid, how)

SpecCrypto == Init /\ [][NextCrypto]_vars

(* Reading rows whose tags column holds any of the stored forms: one       *)
(* secret of user 2 is in the table, and Get and List are served           *)

InitTags ==
    /\ \E tags \in StoredTags :
          secrets = <<[NewSecret(SecretCreate("db-pass", "password", "p@ss1",
                                              None, <<>>), 2, 1)
                         EXCEPT !.tags = tags]>>
    /\ secret_versions = <<>>
    /\ audit = <<>>
    /\ clock = 1
    /\ latest = <<"p@ss1">>
    /\ last = [op |-> "boot", status |-> 200]
    /\ txn = [w \in Workers |-> NoTxn]
    /\ audit_up = "ok"
    /\ audit_logs = <<>>
    /\ held = <<<<Holding(secrets[1], "p@ss1")>>>>

NextTags ==
    \/ \E sid \in SecretIds, show_value \in BOOLEAN, user \in Identities :
          get_secret(sid, show_value, user)
    \/ \E user \in Identities : list_secrets(user)

SpecTags == InitTags /\ [][NextTags]_vars

----------------------------------------------------------------------------
(* Requests served by concurrent workers.  Every handler opens its own     *)
(* connection; the store runs its statements under READ COMMITTED.  The    *)
(* handlers of one statement take effect at once.  update_secret reads the *)
(* row with a plain SELECT (no FOR UPDATE), and its INSERT and UPDATE      *)
(* become visible together at its COMMIT: other requests run in between.   *)
(* The updates drawn here all carry a value.                               *)

(* audit events the calls in flight will still send *)
PendingEvents ==
    LET n(w) == IF txn[w].pc # "selected" THEN 0
                ELSE IF txn[w].op = "rotate" THEN 2 ELSE 1
    IN n("w1") + n("w2")

(* update_secret up to its SELECT and the 404 it may answer *)
BeginUpdate(w, op, sid, upd, user) ==
    LET existing == SelectOwned(sid, user.user_id)
    IN /\ txn[w].pc # "selected"
       /\ IF existing = None
          THEN /\ last' = Served(op, HTTP404)
               /\ UNCHANGED <<secrets, secret_versions, audit, clock, latest, txn>>
          ELSE /\ Len(UpdateEvents(op, user, sid)) + PendingEvents <= MaxAudit
               /\ txn' = [txn EXCEPT ![w] =
                        [pc |-> "selected", op |-> op, sid |-> sid, user |-> user,
                         req |-> upd, now |-> clock + 1,
                         version |-> existing[1].version,
                         encrypted_value |-> existing[1].encrypted_value]]
               /\ clock' = clock + 1
               /\ UNCHANGED <<secrets, secret_versions, audit, latest, last>>
       /\ Delivery
       /\ History

(* the rest of update_secret: INSERT what was read, UPDATE the row as it   *)
(* is now (WHERE id AND owner_id), COMMIT, notify, answer                  *)
CommitUpdate(w) ==
    LET t == txn[w]
    IN /\ t.pc = "selected"
       /\ secret_versions' = Append(secret_versions,
               ArchiveRow(t.sid, t.version, t.encrypted_value, t.user.user_id))
       /\ secrets' = [secrets EXCEPT ![t.sid] = ApplyUpdate(@, t.req, t.now)]
       /\ audit' = UpdateEvents(t.op, t.user, t.sid)
       /\ latest' = LatestAfter(t.sid, t.req)
       /\ last' = Served(t.op, Response(200, OK))
       /\ txn' = [txn EXCEPT ![w] = NoTxn]
       /\ UNCHANGED clock
       /\ Delivery
       /\ History

NextConc ==
    \/ \E secret \in CreateRequests, user \in Identities :
          PendingEvents < MaxAudit /\ create_secret(secret, user)
    \/ \E user \in Identities : list_secrets(user)
    \/ \E sid \in SecretIds, show_value \in BOOLEAN, user \in Identities :
          PendingEvents < MaxAudit /\ get_secret(sid, show_value, user)
    \/ \E sid \in SecretIds, user \in Identities :
          PendingEvents < MaxAudit /\ delete_secret(sid, user)
    \/ \E sid \in SecretIds, user \in Identities : get_secret_versions(sid, user)
    \/ \E w \in Workers, sid \in SecretIds, upd \in ValueUpdateRequests,
          user \in Identities :
          BeginUpdate(w, "update", sid, upd, user)
    \/ \E w \in Workers, sid \in SecretIds, new_password \in RotateValues,
          user \in Identities :
          BeginUpdate(w, "rotate", sid, RotateUpdate(new_password), user)
    \/ \E w \in Workers : CommitUpdate(w)

SpecConc == Init /\ [][NextConc]_vars

----------------------------------------------------------------------------
(* Vocabulary of the properties *)

Live(sid) == Exists(sid) /\ secrets[sid].deleted_at = None
Deleted(sid) == Exists(sid) /\ secrets[sid].deleted_at # None
Admin(user) == user.role = "admin"
Owner(sid, user) == Exists(sid) /\ secrets[sid].owner_id = user.user_id

(* indexes of the archived rows of secret sid *)
ArchivedRows(sid) == {i \in DOMAIN secret_versions : secret_versions[i].secret_id = sid}

ArchivedVersions(sid) == {secret_versions[i].version : i \in ArchivedRows(sid)}

----------------------------------------------------------------------------
(* C1: in every reachable state a secret at version N has exactly N-1      *)
(* archived rows, and they carry the version numbers 1..N-1.               *)
C1_ArchiveMatchesVersion ==
    \A sid \in DOMAIN secrets :
        /\ Cardinality(ArchivedRows(sid)) = secrets[sid].version - 1
        /\ ArchivedVersions(sid) = 1..(secrets[sid].version - 1)

----------------------------------------------------------------------------
(* C2: under concurrent updates and rotations of one secret, no two        *)
(* archived rows of a secret share a version number (no two calls archive  *)
(* the same pre-update version) and every version the secret has left is   *)
(* archived (no value is lost).                                            *)
C2_NoDuplicateNoLostUpdate ==
    \A sid \in DOMAIN secrets :
        /\ \A i, j \in ArchivedRows(sid) :
              i # j => secret_versions[i].version # secret_versions[j].version
        /\ \A v \in 1..(secrets[sid].version - 1) : v \in ArchivedVersions(sid)

----------------------------------------------------------------------------
(* C3: an update that supplies no value leaves the version and ciphertext  *)
(* as they were and inserts no archived row; an archived row is inserted   *)
(* only by an update that changes the value, one row per update.           *)
C3_MetadataOnlyArchivesNothing ==
    [][ /\ \A sid \in SecretIds, upd \in UpdateRequests, user \in Identities :
             (update_secret(sid, upd, user) /\ upd.value = None) =>
                /\ secret_versions' = secret_versions
                /\ \A s \in DOMAIN secrets :
                      /\ secrets'[s].version = secrets[s].version
                      /\ secrets'[s].encrypted_value = secrets[s].encrypted_value
        /\ secret_versions' # secret_versions =>
             /\ Len(secret_versions') = Len(secret_versions) + 1
             /\ \E sid \in DOMAIN secrets :
                   secrets'[sid].version = secrets[sid].version + 1
      ]_vars

----------------------------------------------------------------------------
(* C4: once a secret is deleted its tombstone stays set and its row stays  *)
(* in the table; no identity, admin included, gets it from List, and Get,  *)
(* Update, Rotate, ListVersions and a second Delete on it answer           *)
(* "Secret not found" to every identity.                                   *)
HiddenFromAll(sid) ==
    \A user \in Identities :
        /\ \A k \in DOMAIN list_secrets_response(user).ids :
              list_secrets_response(user).ids[k] # sid
        /\ \A show_value \in BOOLEAN :
              get_secret_response(sid, show_value, user) = HTTP404
        /\ \A upd \in UpdateRequests :
              update_secret_response("update", sid, upd, user) = HTTP404
        /\ \A new_password \in RotateValues :
              update_secret_response("rotate", sid, RotateUpdate(new_password), user)
                  = HTTP404
        /\ get_secret_versions_response(sid, user) = HTTP404
        /\ delete_secret_response(sid, user) = HTTP404

C4_DeletedStaysDeleted ==
    /\ [](\A sid \in DOMAIN secrets : Deleted(sid) => HiddenFromAll(sid))
    /\ [][\A sid \in DOMAIN secrets :
             Deleted(sid) => /\ sid \in DOMAIN secrets'
                             /\ secrets'[sid] = secrets[sid]]_vars

(* a second Delete was answered 404 while a deleted secret is in the table *)
C4_Witness ==
    /\ last = [op |-> "delete", status |-> 404]
    /\ \E sid \in DOMAIN secrets : Deleted(sid)
    /\ audit[Len(audit)].action = "DELETE"

----------------------------------------------------------------------------
(* C5: Create with role "user" answers 403, stores no row and notifies     *)
(* nothing; Create with role "admin" or "developer" stores exactly one new *)
(* secret, owned by the caller, at version 1, with no tombstone and no     *)
(* archived row, and notifies one CREATE event.  (The requests are those   *)
(* whose value can be encrypted.)                                          *)
C5_CreateByRole ==
    [][\A secret \in CryptoCreates, user \in Identities :
         create_secret(secret, user) =>
           IF user.role = "user"
           THEN /\ last' = [op |-> "create", status |-> 403]
                /\ create_secret_response(secret, user).detail = FORBIDDEN
                /\ UNCHANGED <<secrets, secret_versions, audit>>
           ELSE LET id == Len(secrets) + 1
                IN /\ user.role \in {"admin", "developer"}
                   /\ last' = [op |-> "create", status |-> 200]
                   /\ DOMAIN secrets' = DOMAIN secrets \cup {id}
                   /\ \A sid \in DOMAIN secrets : secrets'[sid] = secrets[sid]
                   /\ secrets'[id].owner_id = user.user_id
                   /\ secrets'[id].version = 1
                   /\ secrets'[id].deleted_at = None
                   /\ secret_versions' = secret_versions
                   /\ \A i \in DOMAIN secret_versions' :
                         secret_versions'[i].secret_id # id
                   /\ audit' = Append(audit, AuditEvent(user, "CREATE", id))
      ]_vars

(* a Create was refused with 403 in a store that already holds a secret *)
C5_Witness ==
    /\ last = [op |-> "create", status |-> 403]
    /\ Len(secrets) >= 1
    /\ Len(secrets) < MaxSecrets
    /\ \E i \in DOMAIN audit : audit[i].action = "CREATE"

----------------------------------------------------------------------------
(* C6: a non-admin caller's List holds exactly the caller's own live       *)
(* secrets and is the same whatever the other owners' rows are, and Get on *)
(* another owner's secret answers "Secret not found"; an admin's List and  *)
(* Get cover the live secrets of all owners.                               *)
IdsOf(response) == {response.ids[k] : k \in DOMAIN response.ids}

(* the table with every row not owned by user changed in every respect     *)
(* a query could look at                                                   *)
OthersChanged(user) ==
    [sid \in DOMAIN secrets |->
        IF secrets[sid].owner_id = user.user_id THEN secrets[sid]
        ELSE [secrets[sid] EXCEPT
                !.deleted_at = IF @ = None THEN Some(clock) ELSE None,
                !.updated_at = clock + 1,
                !.version = @ + 1,
                !.encrypted_value = encrypt_value("other", clock + 1)]]

C6_ReadIsolation ==
    \A user \in Identities :
        LET listed == list_secrets_response(user)
        IN /\ listed.status = 200
           /\ Len(listed.ids) = Cardinality(IdsOf(listed))
           /\ IF Admin(user)
              THEN /\ IdsOf(listed) = {sid \in DOMAIN secrets : Live(sid)}
                   /\ \A sid \in DOMAIN secrets, show_value \in BOOLEAN :
                         Live(sid) =>
                           /\ get_secret_response(sid, show_value, user).status = 200
                           /\ get_secret_response(sid, show_value, user).ids = <<sid>>
              ELSE /\ IdsOf(listed) =
                         {sid \in DOMAIN secrets : Live(sid) /\ Owner(sid, user)}
                   /\ listed.ids = list_rows(OthersChanged(user), user)
                   /\ \A sid \in DOMAIN secrets, show_value \in BOOLEAN :
                         ~Owner(sid, user) =>
                           get_secret_response(sid, show_value, user) = HTTP404

(* a List was served while two owners each hold a live secret *)
C6_Witness ==
    /\ last = [op |-> "list", status |-> 200]
    /\ \E s1, s2 \in DOMAIN secrets :
          /\ Live(s1) /\ Live(s2)
          /\ secrets[s1].owner_id = 1 /\ secrets[s2].owner_id = 2

----------------------------------------------------------------------------
(* C7: for a non-admin caller, Get, Update, Delete and ListVersions answer *)
(* the same "Secret not found" for an id that does not exist, for a        *)
(* soft-deleted secret and for a secret of another owner, and such a call  *)
(* changes no row and notifies nothing.                                    *)
HiddenFrom(sid, user) == ~Exists(sid) \/ Deleted(sid) \/ ~Owner(sid, user)

C7_NotFoundIndistinguishable ==
    /\ [](\A user \in Identities, sid \in SecretIds :
            (~Admin(user) /\ HiddenFrom(sid, user)) =>
               /\ \A show_value \in BOOLEAN :
                     get_secret_response(sid, show_value, user) = HTTP404
               /\ \A upd \in UpdateRequests :
                     update_secret_response("update", sid, upd, user) = HTTP404
               /\ delete_secret_response(sid, user) = HTTP404
               /\ get_secret_versions_response(sid, user) = HTTP404)
    /\ [][\/ /\ last'.status = 404
             /\ UNCHANGED <<secrets, secret_versions, audit>>
          \/ \A user \in Identities, sid \in SecretIds :
               ~ /\ ~Admin(user) /\ HiddenFrom(sid, user)
                 /\ \/ \E show_value \in BOOLEAN : get_secret(sid, show_value, user)
                    \/ \E upd \in UpdateRequests : update_secret(sid, upd, user)
                    \/ delete_secret(sid, user)
                    \/ get_secret_versions(sid, user)]_vars

(* a non-admin call was answered 404 while the table holds a deleted       *)
(* secret of user 2 and a live secret of user 1, and one id is unused      *)
C7_Witness ==
    /\ last.status = 404
    /\ last.op \in {"get", "update", "delete", "versions"}
    /\ \E s1, s2 \in DOMAIN secrets :
          /\ Deleted(s1) /\ secrets[s1].owner_id = 2
          /\ Live(s2) /\ secrets[s2].owner_id = 1
    /\ \E sid \in SecretIds : ~Exists(sid)

----------------------------------------------------------------------------
(* C8: Update, Rotate, Delete and ListVersions called by an identity that  *)
(* is not the owner, an admin included, answer "Secret not found" and      *)
(* leave the secret, its archived rows and the audit trail as they were.   *)
C8_OwnerOnly ==
    /\ [](\A user \in Identities, sid \in DOMAIN secrets :
            ~Owner(sid, user) =>
               /\ \A upd \in UpdateRequests :
                     update_secret_response("update", sid, upd, user) = HTTP404
               /\ \A new_password \in RotateValues :
                     update_secret_response("rotate", sid, RotateUpdate(new_password),
                                            user) = HTTP404
               /\ delete_secret_response(sid, user) = HTTP404
               /\ get_secret_versions_response(sid, user) = HTTP404)
    /\ [][\/ /\ last'.status = 404
             /\ UNCHANGED <<secrets, secret_versions, audit>>
          \/ \A user \in Identities, sid \in DOMAIN secrets :
               ~ /\ ~Owner(sid, user)
                 /\ \/ \E upd \in UpdateRequests : update_secret(sid, upd, user)
                    \/ \E new_password \in RotateValues :
                          rotate_secret(sid, new_password, user)
                    \/ delete_secret(sid, user)
                    \/ get_secret_versions(sid, user)]_vars

(* a Rotate was answered 404 while an admin faces a live secret of user 2 *)
C8_Witness ==
    /\ last = [op |-> "rotate", status |-> 404]
    /\ \E sid \in DOMAIN secrets : Live(sid) /\ secrets[sid].owner_id = 2
    /\ \A i \in DOMAIN audit : audit[i].action # "ROTATE"

----------------------------------------------------------------------------
----------------------------------------------------------------------------
(* C10: a Rotate that succeeds changes the store as one value-changing     *)
(* Update does (version + 1, one new archived row holding the previous     *)
(* version and ciphertext), a following Get with show_value answers the    *)
(* value it returned, and it notifies UPDATE and then ROTATE; a Rotate     *)
(* answered "Secret not found" changes nothing and notifies nothing.       *)
C10_RotateIsUpdatePlusRotateEvent ==
    [][last'.op = "rotate" =>
       IF last'.status = 200
       THEN \A sid \in SecretIds, new_password \in RotateValues, user \in Identities :
              rotate_secret(sid, new_password, user) =>
                LET response == update_secret_response("rotate", sid,
                                                       RotateUpdate(new_password), user)
                IN /\ response.status = 200
                   /\ response.value = new_password
                   /\ response.version = secrets[sid].version + 1
                   /\ secrets'[sid].version = secrets[sid].version + 1
                   /\ \A s \in DOMAIN secrets : s # sid => secrets'[s] = secrets[s]
                   /\ DOMAIN secrets' = DOMAIN secrets
                   /\ secrets'[sid] = [secrets[sid] EXCEPT
                          !.version = @ + 1,
                          !.encrypted_value = secrets'[sid].encrypted_value,
                          !.updated_at = secrets'[sid].updated_at]
                   /\ secret_versions' = Append(secret_versions,
                          [secret_id |-> sid, version |-> secrets[sid].version,
                           encrypted_value |-> secrets[sid].encrypted_value,
                           updated_by |-> user.user_id])
                   /\ get_secret_response(sid, TRUE, user)'.status = 200
                   /\ get_secret_response(sid, TRUE, user)'.value = response.value
                   /\ audit' = audit \o <<AuditEvent(user, "UPDATE", sid),
                                           AuditEvent(user, "ROTATE", sid)>>
       ELSE /\ last'.status = 404
            /\ UNCHANGED <<secrets, secret_versions, audit>>
            /\ \A sid \in SecretIds, new_password \in RotateValues, user \in Identities :
                  LET response == update_secret_response("rotate", sid,
                                                         RotateUpdate(new_password), user)
                  IN response.status # 200 => response = HTTP404
      ]_vars

(* a Rotate has succeeded *)
C10_Witness ==
    /\ last = [op |-> "rotate", status |-> 200]
    /\ Len(audit) >= 2
    /\ audit[Len(audit)].action = "ROTATE"
    /\ \E sid \in DOMAIN secrets :
          secrets[sid].version = 2 /\ latest[sid] \in RotateValues

----------------------------------------------------------------------------
(* C11: audit delivery is fire-and-forget.  Whatever a post to the audit   *)
(* service meets (answered, refused, timed out), a handler that got as far *)
(* as log_audit answers its success and its write stays committed: a lost  *)
(* event turns no success into an error and rolls nothing back.  The event *)
(* reaches the audit service only when the post is answered.               *)
C11_AuditFireAndForget ==
    [][audit' # audit =>
          /\ last'.status = 200
          /\ last'.op # "get" => secrets' # secrets
          /\ last'.op = "get" => UNCHANGED <<secrets, secret_versions>>
          /\ post_raises(audit_up) => audit_logs' = audit_logs
      ]_vars

(* a Create answered 200 whose row is stored while its event was lost *)
C11_Witness ==
    /\ last = [op |-> "create", status |-> 200]
    /\ audit_up = "timeout"
    /\ Len(secrets) = 1
    /\ Len(audit) = 1
    /\ audit_logs = <<>>

----------------------------------------------------------------------------
(* C12: no partial success.  A call that is not answered 200 (the caller   *)
(* may not create, the secret is not the caller's or is gone, the value    *)
(* cannot be encrypted) leaves secrets and secret_versions as they were;   *)
(* an Update whose encryption fails, after its INSERT into secret_versions *)
(* was executed, is answered 500 and commits no row.                       *)
C12_NoPartialSuccess ==
    [][/\ last'.status # 200 => UNCHANGED <<secrets, secret_versions>>
       /\ last'.op = "update" =>
            \A sid \in DOMAIN secrets, user \in Identities :
               \A upd \in {u \in UpdateRequests :
                              ValueSupplied(u) /\ encrypt_raises(u.value[1])} :
                  SelectOwned(sid, user.user_id) # None /\ update_secret(sid, upd, user)
                  => /\ last'.status = 500
                     /\ secret_versions' = secret_versions
      ]_vars

(* an Update of an owned secret failed at encryption: nothing was archived *)
C12_Witness ==
    /\ last = [op |-> "update", status |-> 500]
    /\ Len(secrets) = 1
    /\ secrets[1].version = 1
    /\ secret_versions = <<>>

----------------------------------------------------------------------------
(* C13: a Get that finds the secret notifies exactly one VIEW event, of    *)
(* the caller and that secret, whether the value is revealed or masked; a  *)
(* Get answered 404 notifies nothing; List never notifies.                 *)
C13_ViewEvents ==
    [][/\ last'.op = "list" => audit' = audit
       /\ last'.op = "get" =>
            /\ audit' = audit <=> last'.status = 404
            /\ \A sid \in SecretIds, show_value \in BOOLEAN, user \in Identities :
                 get_secret(sid, show_value, user) =>
                    audit' = IF SelectVisible(sid, user) = None THEN audit
                             ELSE Append(audit, AuditEvent(user, "VIEW", sid))
      ]_vars

(* two Gets found the secret: each left one VIEW after the CREATE *)
C13_Witness ==
    /\ last = [op |-> "get", status |-> 200]
    /\ Len(audit) = 3
    /\ audit[1].action = "CREATE"
    /\ audit[2].action = "VIEW" /\ audit[3].action = "VIEW"

----------------------------------------------------------------------------
(* C14: crypto envelope.  Decrypting what encrypt_value produced gives the *)
(* plaintext back.  A stored ciphertext that was altered, or written under *)
(* another key, does not decrypt: Get with show_value then fails with      *)
(* InvalidToken, an error unlike every other answer, and carries neither a *)
(* value nor the placeholder nor an empty value; a Get that does answer a  *)
(* value answers the plaintext last stored.                                *)
Plaintexts ==
    {secret.value : secret \in CreateRequests} \cup RotateValues
       \cup {upd.value[1] : upd \in {u \in UpdateRequests : u.value # None}}

C14_RoundTrip ==
    \A p \in Plaintexts, now \in 0..(clock + 1) :
       ~encrypt_raises(p) =>
          /\ decrypt_ok(encrypt_value(p, now))
          /\ decrypt_value(encrypt_value(p, now)) = p
          /\ \A how \in Alterations : ~decrypt_ok(Altered(encrypt_value(p, now), how))

----------------------------------------------------------------------------
(* C15: List is ordered most recently updated first.  A successful Update  *)
(* (of value or of metadata) or Rotate puts its secret before every other  *)
(* secret in each List that shows it and leaves the others in their order; *)
(* a Create puts the new secret first; Get, List, ListVersions and every   *)
(* call not answered 200 leave each caller's List as it was, and a Delete  *)
(* only takes its secret out.                                              *)
Without(ids, sid) == SelectSeq(ids, LAMBDA i : i # sid)

C15_ListOrder ==
    [][\A user \in Identities :
         LET before == list_rows(secrets, user)
             after == list_rows(secrets', user)
         IN /\ last'.status # 200 \/ last'.op \in {"get", "list", "versions"}
                 => after = before
            /\ last'.status = 200 /\ last'.op \in {"update", "rotate"} =>
                 \E sid \in DOMAIN secrets :
                    /\ secrets'[sid].updated_at > secrets[sid].updated_at
                    /\ Without(after, sid) = Without(before, sid)
                    /\ after # <<>> /\ Listed(secrets', sid, user) => after[1] = sid
            /\ last'.status = 200 /\ last'.op = "create" =>
                 /\ Without(after, Len(secrets')) = before
                 /\ Listed(secrets', Len(secrets'), user) => after[1] = Len(secrets')
            /\ last'.status = 200 /\ last'.op = "delete" =>
                 \E sid \in DOMAIN secrets : after = Without(before, sid)
      ]_vars

(* the older of the owner's two secrets was updated and now comes first *)
C15_Witness ==
    /\ last.status = 200 /\ last.op \in {"update", "rotate"}
    /\ Len(secrets) = 2
    /\ secrets[1].created_at < secrets[2].created_at
    /\ list_rows(secrets, Identity(2, "developer")) = <<1, 2>>

----------------------------------------------------------------------------
(* C16: ListVersions by the owner of a live secret answers all and only    *)
(* the secret_versions rows of that secret, in strictly descending order   *)
(* of version.                                                             *)
C16_VersionsStrictlyDescending ==
    \A sid \in DOMAIN secrets, user \in Identities :
        Live(sid) /\ Owner(sid, user) =>
           LET answered == get_secret_versions_response(sid, user)
           IN /\ answered.status = 200
              /\ \A i \in DOMAIN answered.rows : answered.rows[i].secret_id = sid
              /\ Len(answered.rows) = Cardinality(ArchivedRows(sid))
              /\ \A i, j \in DOMAIN answered.rows :
                    i < j => answered.rows[i].version > answered.rows[j].version

----------------------------------------------------------------------------
(* C17: a secret's owner is the identity that created it, and no operation *)
(* changes it: in every state the owner of a secret is the caller of the   *)
(* CREATE notified for it, and no step alters the owner of a stored row.   *)
C17_OwnerFixed ==
    /\ [](\A sid \in DOMAIN secrets :
            \E i \in DOMAIN audit :
               audit[i] = [user_id |-> secrets[sid].owner_id,
                           user_email |-> Email(secrets[sid].owner_id),
                           action |-> "CREATE", secret_id |-> sid])
    /\ [][\A sid \in DOMAIN secrets :
            /\ sid \in DOMAIN secrets'
            /\ secrets'[sid].owner_id = secrets[sid].owner_id
            /\ secrets'[sid].created_at = secrets[sid].created_at]_vars

(* a secret created by user 2 was updated and then deleted by its owner, *)
(* and is still that user's                                            *)
C17_Witness ==
    /\ Len(audit) = 3
    /\ audit[1].action = "CREATE" /\ audit[1].user_id = 2
    /\ audit[2].action = "UPDATE"
    /\ audit[3].action = "DELETE"
    /\ Len(secrets) = 1 /\ secrets[1].owner_id = 2 /\ Deleted(1)

----------------------------------------------------------------------------
(* C18: once a Delete has committed, no Update or Rotate running beside it *)
(* commits a change: no step alters the row of a deleted secret            *)
(* (ciphertext, version, description, tags) or archives a row for it.      *)
C18_NoChangeAfterDelete ==
    [][\A sid \in DOMAIN secrets :
         Deleted(sid) =>
            /\ secrets'[sid] = secrets[sid]
            /\ Len(secret_versions') > Len(secret_versions) =>
                  secret_versions'[Len(secret_versions')].secret_id # sid
      ]_vars

----------------------------------------------------------------------------
(* C19: a successful Update answers the secret's new version.  When the    *)
(* request carries a value, the empty string included, the value is        *)
(* encrypted anew and the version is the previous one plus one; when it    *)
(* carries none, the version answered is the one before the call.          *)
C19_UpdateVersion ==
    [][last'.op = "update" /\ last'.status = 200 =>
         \A sid \in DOMAIN secrets, upd \in UpdateRequests, user \in Identities :
            update_secret(sid, upd, user) =>
               LET answered == update_secret_response("update", sid, upd, user)
               IN /\ answered.version = secrets'[sid].version
                  /\ IF upd.value # None
                     THEN /\ answered.version = secrets[sid].version + 1
                          /\ secrets'[sid].encrypted_value # secrets[sid].encrypted_value
                          /\ decrypt_value(secrets'[sid].encrypted_value) = upd.value[1]
                     ELSE answered.version = secrets[sid].version
      ]_vars

----------------------------------------------------------------------------
(* C20: every archived row numbered k holds exactly the ciphertext its     *)
(* secret held while at version k, which decrypts to the value the secret  *)
(* had then, and names as updated_by the identity whose update replaced    *)
(* version k.  After Create("p@ss1") and Update("p@ss2") the one archived  *)
(* row is numbered 1 and decrypts to "p@ss1".                              *)
HeldAt(sid, k) == {i \in DOMAIN held[sid] : held[sid][i].version = k}

C20_ArchiveHoldsReplaced ==
    \A r \in DOMAIN secret_versions :
       LET row == secret_versions[r]
           at == HeldAt(row.secret_id, row.version)
       IN /\ row.secret_id \in DOMAIN secrets
          /\ Cardinality(at) = 1
          /\ \A i \in at :
                LET was == held[row.secret_id][i]
                IN /\ row.encrypted_value = was.encrypted_value
                   /\ decrypt_ok(row.encrypted_value)
                   /\ decrypt_value(row.encrypted_value) = was.value
                   /\ was.replaced_by # 0 => row.updated_by = was.replaced_by
                   /\ was.replaced_by = 0 => row.version = secrets[row.secret_id].version

(* "p@ss1" was created and updated to "p@ss2": one archived row, numbered *)
(* 1, that decrypts to "p@ss1"                                           *)
C20_Witness ==
    /\ Len(secrets) = 1 /\ secrets[1].version = 2 /\ latest[1] = "p@ss2"
    /\ Len(secret_versions) = 1
    /\ secret_versions[1].version = 1
    /\ decrypt_value(secret_versions[1].encrypted_value) = "p@ss1"
    /\ secret_versions[1].updated_by = secrets[1].owner_id

----------------------------------------------------------------------------
(* C21: the role "user" is read-only.  No Create, Update, Rotate or Delete *)
(* called with an identity of role "user", on any secret id, the caller's  *)
(* own secrets included, changes a row of secrets or of secret_versions.   *)
C21_UserRoleReadOnly ==
    [][<<secrets, secret_versions>>' # <<secrets, secret_versions>> =>
         \A user \in {u \in Identities : u.role = "user"} :
            /\ \A secret \in CreateRequests : ~create_secret(secret, user)
            /\ \A sid \in SecretIds :
                  /\ \A upd \in UpdateRequests : ~update_secret(sid, upd, user)
                  /\ \A new_password \in RotateValues :
                        ~rotate_secret(sid, new_password, user)
                  /\ ~delete_secret(sid, user)
      ]_vars

----------------------------------------------------------------------------
(* C22: storage is append-only with respect to rows.  No step removes a    *)
(* row of secrets or of secret_versions, a secret_versions row stays as it *)
(* was inserted, and a tombstone once set stays set, at its value.         *)
C22_AppendOnly ==
    [][/\ Len(secrets') >= Len(secrets)
       /\ Len(secret_versions') >= Len(secret_versions)
       /\ \A i \in DOMAIN secret_versions : secret_versions'[i] = secret_versions[i]
       /\ \A sid \in DOMAIN secrets :
            secrets[sid].deleted_at # None =>
               secrets'[sid].deleted_at = secrets[sid].deleted_at
      ]_vars

(* a secret with an archived row was deleted: the row is still there *)
C22_Witness ==
    /\ last = [op |-> "delete", status |-> 200]
    /\ \E sid \in DOMAIN secrets : Deleted(sid) /\ ArchivedRows(sid) # {}

----------------------------------------------------------------------------
(* C23: audit events follow commits.  Every CREATE, UPDATE, DELETE and     *)
(* ROTATE event in the trail reports a change that is committed: a secret  *)
(* has one CREATE event, of its owner, one UPDATE event for each archived  *)
(* row, one DELETE event once tombstoned, and a ROTATE event follows the   *)
(* UPDATE of its call.  A successful Create, Update or Delete notifies     *)
(* exactly one event, of its own action, with the caller's id and the      *)
(* secret's id, in the step that commits; a call that fails before its     *)
(* commit notifies nothing.                                                *)
Events(action, sid) ==
    {i \in DOMAIN audit : audit[i].action = action /\ audit[i].secret_id = sid}

C23_AuditFollowsCommit ==
    /\ [](/\ \A sid \in SecretIds :
              /\ Cardinality(Events("CREATE", sid)) = IF Exists(sid) THEN 1 ELSE 0
              /\ Cardinality(Events("UPDATE", sid)) = Cardinality(ArchivedRows(sid))
              /\ Cardinality(Events("DELETE", sid)) = IF Deleted(sid) THEN 1 ELSE 0
              /\ \A i \in Events("CREATE", sid) :
                    audit[i].user_id = secrets[sid].owner_id
           /\ \A i \in DOMAIN audit :
                 audit[i].action = "ROTATE" =>
                    i > 1 /\ audit[i - 1] = [audit[i] EXCEPT !.action = "UPDATE"])
    /\ [][/\ last'.status # 200 /\ last'.op # "get" => audit' = audit
          /\ last'.status = 200 /\ last'.op = "create" =>
               \A secret \in CreateRequests, user \in Identities :
                  create_secret(secret, user) =>
                     /\ audit' = Append(audit, AuditEvent(user, "CREATE", Len(secrets')))
                     /\ Len(secrets') = Len(secrets) + 1
          /\ last'.status = 200 /\ last'.op = "update" =>
               \A sid \in DOMAIN secrets, upd \in UpdateRequests, user \in Identities :
                  update_secret(sid, upd, user) =>
                     /\ audit' = Append(audit, AuditEvent(user, "UPDATE", sid))
                     /\ secrets'[sid] # secrets[sid]
          /\ last'.status = 200 /\ last'.op = "delete" =>
               \A sid \in DOMAIN secrets, user \in Identities :
                  delete_secret(sid, user) =>
                     /\ audit' = Append(audit, AuditEvent(user, "DELETE", sid))
                     /\ Live(sid) /\ secrets'[sid].deleted_at # None
         ]_vars

(* an Update failed at encryption after a Create and an Update had been    *)
(* committed: the trail holds the two events of those                      *)
C23_Witness ==
    /\ last = [op |-> "update", status |-> 500]
    /\ Len(audit) = 2
    /\ audit[1].action = "CREATE" /\ audit[2].action = "UPDATE"
    /\ Cardinality(ArchivedRows(1)) = 1

----------------------------------------------------------------------------
(* C24: tag decoding is total and normalizing.  Whatever the tags column   *)
(* of a row holds (null, a list, a text that serializes a list or some     *)
(* other value, a bare text), the tags a Get answers are parse_tags of it  *)
(* and are a list of strings; a bare text gives the list holding just that *)
(* text, and a malformed serialized form gives the empty list.             *)
C24_ParseTagsNormalizes ==
    last = [op |-> "get", status |-> 200] =>
       \A sid \in DOMAIN secrets :
          LET stored == secrets[sid].tags
              answered == get_secret_response(sid, FALSE, Identity(2, "developer"))
          IN answered.status = 200 =>
                /\ answered.tags = parse_tags(stored)
                /\ answered.tags.t = "list"
                /\ stored.t = "str" /\ stored.json = "invalid" =>
                      IF stored.v[1] \in BareTexts
                      THEN answered.tags = PyList(stored.v)
                      ELSE answered.tags = PyList(<<>>)

====
